---- MODULE Spec2Model ----
(***************************************************************************)
(* Model of toolbox.asyncio.pattern.CoroutineClass: one handle, the tasks  *)
(* it creates on one asyncio event loop, and the user code that calls the  *)
(* handle from callbacks of that loop.                                     *)
(*                                                                         *)
(* The event loop is the single-threaded cooperative scheduler of asyncio: *)
(* a FIFO queue of ready callbacks (`ready`), one callback running at a    *)
(* time.  User code is itself a callback of the loop (`cur = "caller"`     *)
(* while it runs); it may call any number of handle operations before it   *)
(* gives control back to the loop.                                         *)
(***************************************************************************)
EXTENDS Integers, Sequences, FiniteSets, TLC

\* ---------------------------------------------------------------- bounds
\* Total number of handle operations user code performs in one behaviour.
MaxOps == 4
\* Distinct argument keys a cached function is called with.
NumKeys == 2
\* Total number of calls of the cached function in one behaviour.
MaxCalls == 4
\* Largest integer maxsize a cache is built with.
MaxSize == 2
\* Largest number of suspension points (await asyncio.sleep) of the entry.
MaxAwaits == 2
MaxSecs == 2
MaxNeed == 2
MaxTime == 4
MaxNest == 2
MaxTCalls == 2
MaxItems == 2

\* ------------------------------------------------------------ vocabulary
None == "None"
Unset == "unset"
\* The non-None values the entry point may return.
Values == {"v1", "v2"}
ExitKinds == {"normal", "fault", "early"}
Keys == 1..NumKeys
\* A key the cache dictionary does not hold.
Absent == [kind |-> "absent", t |-> 0, v |-> 0]

VARIABLES
    entry,      \* the entry point: [awaits, value, fault]
    tasks,      \* every asyncio.Task the handle created, by creation order
    task,       \* self._task: 0 is None, else an index of tasks
    result,     \* self.result: Unset until the first stop()
    ready,      \* loop._ready: FIFO of scheduled callbacks
    cur,        \* "caller" while user code runs, "idle" between callbacks;
                \* "sync" while synchronous code runs and the loop does not,
                \* "driving" while run() drives the loop to completion
    awaiter,    \* 0, or the task a suspended `await handle` waits for
    scope,      \* "out" or "in": position of the `async with` block
    op,         \* last handle operation user code completed
    ret,        \* what that operation returned
    exc,        \* what that operation raised ("none" if it returned)
    started,    \* whether that operation scheduled a new unit of work
    pre,        \* the handle's task as that operation found it
    exitKind,   \* how the `async with` body was last left
    nops,       \* number of handle operations performed so far
    startCalls, \* invocations of the start callback
    endCalls,   \* invocations of the end callback
    endSaw      \* self.result as the last end callback invocation found it

\* State of a function decorated with future_lru_cache.
VARIABLES
    cmax,       \* maxsize: an integer, or -1 when it is not one (None)
    cfails,     \* the argument keys on which the decorated function raises
    cache,      \* the cache dictionary, by argument key
    ctasks,     \* the tasks running run_and_cache, by creation order
    runs,       \* executions of the decorated function's body, by key
    cret,       \* what the last call of the decorated function returned
    ncalls      \* calls of the decorated function so far

pvars == <<entry, tasks, task, result, ready, cur, awaiter, scope, op, ret,
           exc, started, pre, exitKind, nops, startCalls, endCalls, endSaw>>

cvars == <<cmax, cfails, cache, ctasks, runs, cret, ncalls>>

\* State of the functions wrapped with timeout() and of the process's alarm.
VARIABLES
    alarm,      \* seconds until SIGALRM is delivered; 0 when no alarm is set
    tstack,     \* the wrapped calls in progress, outermost first
    tret,       \* how the last wrapped call that ended came out
    tlate,      \* a TimeoutError was raised in code outside any wrapped call
    now,        \* seconds elapsed
    tcalls      \* wrapped calls made so far

tvars == <<alarm, tstack, tret, tlate, now, tcalls>>

\* A FrozenDict, a BidirectionalDict, and the last operation on either.
VARIABLES
    fd,         \* contents of the FrozenDict, by key (NoItem: key absent)
    bd,         \* contents of the BidirectionalDict, by key
    dexc,       \* what the last dictionary operation raised
    dop         \* the last dictionary operation: [obj, name, key]

dvars == <<fd, bd, dexc, dop>>

\* The global configuration.
VARIABLES
    gconf,      \* globals()["gconf"], by key
    ginst,      \* the dictionary the last make_config installed
    gret        \* what the last conf() or config() returned

gvars == <<gconf, ginst, gret>>

vars == <<pvars, cvars, tvars, dvars, gvars>>

\* What the operations of each component leave alone.
notPattern == <<cvars, tvars, dvars, gvars>>

notCache == <<pvars, tvars, dvars, gvars>>

notTimeout == <<pvars, cvars, dvars, gvars>>

notDicts == <<pvars, cvars, tvars, gvars>>

notConfig == <<pvars, cvars, tvars, dvars>>

\* ------------------------------------------------------- asyncio.Task
StepEntry(t) == [kind |-> "step", t |-> t]
StopEntry(t) == [kind |-> "stop_cb", t |-> t]
AwaiterEntry(t) == [kind |-> "awaiter", t |-> t]
CallerEntry == [kind |-> "caller", t |-> 0]
UntilEntry(t) == [kind |-> "until_cb", t |-> t]

\* Variants of the test that makes run() block: always, and never.
RunBlocksAlways == TRUE

RunBlocksNever == FALSE

\* `if not self._loop.is_running()`: run() was called by synchronous code.
RunBlocks == cur = "sync"

\* Variant of run() that does not register stop() as the done callback.
NewTaskNoCallback ==
    [state |-> "PENDING", must_cancel |-> FALSE, fut |-> "none",
     left |-> entry.awaits,
     cbs |-> IF RunBlocks THEN <<"until">> ELSE <<>>,
     cancelReq |-> FALSE,
     ends |-> 0, value |-> None, fault |-> FALSE]

\* loop.create_task(self._func()) followed by add_done_callback(self.stop);
\* run_until_complete(self._task) adds the callback that stops the loop.
NewTask ==
    [state |-> "PENDING", must_cancel |-> FALSE, fut |-> "none",
     left |-> entry.awaits,
     cbs |-> IF RunBlocks THEN <<"stop", "until">> ELSE <<"stop">>,
     cancelReq |-> FALSE,
     ends |-> 0, value |-> None, fault |-> FALSE]

Done(ts, t) == ts[t].state # "PENDING"
Cancelled(ts, t) == ts[t].state = "CANCELLED"

\* Task.cancel(): no effect on a task that is done; cancels the future the
\* task waits for if that is still pending, and otherwise marks the task so
\* that its next step throws CancelledError into the coroutine.
CancelWakes(ts, t) == ~Done(ts, t) /\ ts[t].fut = "pending"

Cancel(ts, t) ==
    IF Done(ts, t) THEN ts
    ELSE IF ts[t].fut = "pending"
         THEN [ts EXCEPT ![t].fut = "cancelled", ![t].cancelReq = TRUE]
         ELSE [ts EXCEPT ![t].must_cancel = TRUE, ![t].cancelReq = TRUE]

\* Callbacks of a task that reached a terminal state, in registration order.
CbEntries(t, cbs) ==
    [i \in 1..Len(cbs) |->
        IF cbs[i] = "stop" THEN StopEntry(t)
        ELSE IF cbs[i] = "until" THEN UntilEntry(t)
        ELSE AwaiterEntry(t)]

\* One step of the task's coroutine (Task.__step / Task.__wakeup).
StepThrows(t) == tasks[t].must_cancel \/ tasks[t].fut = "cancelled"

StepFinishes(t) == StepThrows(t) \/ tasks[t].left = 0

TaskAfterStep(t) ==
    IF StepThrows(t)
    THEN [tasks[t] EXCEPT !.state = "CANCELLED", !.must_cancel = FALSE,
                          !.fut = "none"]
    ELSE IF tasks[t].left > 0
    THEN [tasks[t] EXCEPT !.left = @ - 1, !.fut = "pending"]
    ELSE [tasks[t] EXCEPT !.state = "FINISHED", !.fut = "none",
                          !.fault = entry.fault,
                          !.value = IF entry.fault THEN None ELSE entry.value]

\* ------------------------------------------------- CoroutineClass.run
\* Variants of the guard of run(): one that starts unconditionally, and one
\* that takes a requested cancellation for a completed one.
RunStartsAlways == TRUE

RunStartsCancelling == task = 0 \/ tasks[task].cancelReq

\* Variant of the guard that restarts work that is done, not only cancelled.
RunStartsDone == task = 0 \/ Done(tasks, task)

\* `if not self._task or self._task.cancelled()`.
RunStarts == task = 0 \/ Cancelled(tasks, task)

RunTasks == IF RunStarts THEN Append(tasks, NewTask) ELSE tasks
RunTask == IF RunStarts THEN Len(tasks) + 1 ELSE task
RunReady(rd) == IF RunStarts THEN Append(rd, StepEntry(Len(tasks) + 1)) ELSE rd
\* Variant of run() that calls the start callback outside the guard.
RunStartCallsEveryCall == startCalls + 1

RunStartCalls == IF RunStarts THEN startCalls + 1 ELSE startCalls

\* ------------------------------------------------ CoroutineClass.stop
\* stop() evaluated on handle state (ts, tk).
StopFires(ts, tk) == tk # 0 /\ ~Cancelled(ts, tk)

\* Variant of stop() that fires the end callback but omits task.cancel().
StopTasksNoCancel(ts, tk) ==
    IF StopFires(ts, tk)
    THEN [ts EXCEPT ![tk].ends = @ + 1]
    ELSE ts

\* The end callback, then self._task.cancel().
StopTasks(ts, tk) ==
    IF StopFires(ts, tk)
    THEN [Cancel(ts, tk) EXCEPT ![tk].ends = @ + 1]
    ELSE ts

\* Cancelling the sleep future a task waits for schedules the task's wakeup.
StopReady(rd, ts, tk) ==
    IF tk # 0 /\ CancelWakes(ts, tk) /\ StopTasks(ts, tk)[tk].fut = "cancelled"
    THEN Append(rd, StepEntry(tk))
    ELSE rd

\* Variant of stop() that calls the end callback after reading the result.
StopEndSawAfter(ts, tk) ==
    IF StopFires(ts, tk)
    THEN IF ts[tk].state = "FINISHED" /\ ~ts[tk].fault THEN ts[tk].value
         ELSE None
    ELSE endSaw

\* The end callback runs before stop() assigns self.result.
StopEndSaw(ts, tk) == IF StopFires(ts, tk) THEN result ELSE endSaw

StopEndCalls(ts, tk) == IF StopFires(ts, tk) THEN endCalls + 1 ELSE endCalls

StopExc(ts, tk) ==
    IF tk = 0 THEN "AttributeError"
    ELSE IF ts[tk].state = "FINISHED" /\ ts[tk].fault THEN "fault"
    ELSE "none"

\* Variant of stop() that never reads the result back from the task.
StopResultCleared(ts, tk) == None

StopResult(ts, tk) ==
    IF tk # 0 /\ ts[tk].state = "FINISHED" /\ ~ts[tk].fault
    THEN ts[tk].value
    ELSE None

\* What the call hands back: the result, or nothing when it raised.
StopReturn(ts, tk) ==
    IF StopExc(ts, tk) = "none" THEN StopResult(ts, tk) ELSE None

\* --------------------------------------------------------------- Init
\* No cached function is in use.
CacheIdle ==
    /\ cmax = -1
    /\ cfails = {}
    /\ cache = [k \in Keys |-> Absent]
    /\ ctasks = <<>>
    /\ runs = [k \in Keys |-> 0]
    /\ cret = [key |-> 0, kind |-> "none", t |-> 0, v |-> 0, fresh |-> FALSE]
    /\ ncalls = 0

\* A handle that is constructed and not used.
PatternIdle ==
    /\ entry = [awaits |-> 0, value |-> "v1", fault |-> FALSE]
    /\ tasks = <<>>
    /\ task = 0
    /\ result = Unset
    /\ ready = <<>>
    /\ cur = "caller"
    /\ awaiter = 0
    /\ scope = "out"
    /\ op = "init"
    /\ ret = None
    /\ exc = "none"
    /\ started = FALSE
    /\ pre = [state |-> "none", req |-> FALSE, fault |-> FALSE]
    /\ exitKind = "none"
    /\ nops = 0
    /\ startCalls = 0
    /\ endCalls = 0
    /\ endSaw = "never"

\* The keys and values the dictionaries are exercised with.
Elems == {"hello", "world", "ola"}

NoItem == "-"

\* No dictionary operation has been performed.
NoDictOp == [obj |-> "none", name |-> "none", key |-> NoItem]

EmptyDict == [k \in Elems |-> NoItem]

DictsIdle ==
    /\ fd = EmptyDict
    /\ bd = EmptyDict
    /\ dexc = "none"
    /\ dop = NoDictOp

\* Configuration keys, the keys of a nested dictionary, plain values.
ConfKeys == {"hello", "x"}

SubKeys == {"ola"}

Atoms == {"world"}

NoAtom == "-"

NoSub == [k \in SubKeys |-> NoAtom]

\* A key the configuration does not hold.
NoValue == [kind |-> "absent", atom |-> NoAtom, sub |-> NoSub]

EmptyConfig == [k \in ConfKeys |-> NoValue]

\* make_config was never called.
ConfigIdle ==
    /\ gconf = EmptyConfig
    /\ ginst = EmptyConfig
    /\ gret = [kind |-> "none", items |-> EmptyConfig]

\* No wrapped call has been made and no alarm is set.
NoOutcome ==
    [mode |-> "none", kind |-> "none", cause |-> "none", secs |-> 0,
     error |-> FALSE, elapsed |-> 0, left |-> 0]

TimeoutIdle ==
    /\ alarm = 0
    /\ tstack = <<>>
    /\ tret = NoOutcome
    /\ tlate = FALSE
    /\ now = 0
    /\ tcalls = 0

Init ==
    /\ entry \in [awaits : 0..MaxAwaits, value : Values, fault : BOOLEAN]
    /\ tasks = <<>>
    /\ task = 0
    /\ result = Unset
    /\ ready = <<>>
    /\ cur = "caller"
    /\ awaiter = 0
    /\ scope = "out"
    /\ op = "init"
    /\ ret = None
    /\ exc = "none"
    /\ started = FALSE
    /\ pre = [state |-> "none", req |-> FALSE, fault |-> FALSE]
    /\ exitKind = "none"
    /\ nops = 0
    /\ startCalls = 0
    /\ endCalls = 0
    /\ endSaw = "never"
    /\ CacheIdle
    /\ TimeoutIdle
    /\ DictsIdle
    /\ ConfigIdle

CanCall == cur = "caller" /\ nops < MaxOps

\* run() and stop() are plain methods: synchronous code may call them too.
CanCallSync == cur \in {"caller", "sync"} /\ nops < MaxOps

\* The loop is between two callbacks.
LoopRuns == cur \in {"idle", "driving"}

\* self._task as an operation finds it on entry.
PreOf ==
    IF task = 0
    THEN [state |-> "none", req |-> FALSE, fault |-> FALSE]
    ELSE [state |-> tasks[task].state, req |-> tasks[task].cancelReq,
          fault |-> tasks[task].fault]

\* ------------------------------------------------------ handle operations
\* handle.run() from user code running on the loop.
\* With the loop running it returns at once; otherwise a run() that created
\* a task drives the loop until that task is done (see RunReturns).
Run ==
    /\ CanCallSync
    /\ tasks' = RunTasks
    /\ task' = RunTask
    /\ ready' = RunReady(ready)
    /\ startCalls' = RunStartCalls
    /\ cur' = IF RunStarts /\ RunBlocks THEN "driving" ELSE cur
    /\ op' = IF RunStarts /\ RunBlocks THEN "running" ELSE "run"
    /\ ret' = None
    /\ exc' = "none"
    /\ started' = RunStarts
    /\ pre' = PreOf
    /\ nops' = nops + 1
    /\ UNCHANGED <<entry, result, awaiter, scope, exitKind, endCalls>>
    /\ UNCHANGED <<endSaw, notPattern>>

\* run_until_complete(self._task) ends once the loop has run the callback it
\* added to the task: it raises what the task raised, and otherwise run()
\* returns self.result.
RunReturnExc ==
    IF tasks[task].state = "CANCELLED" THEN "CancelledError"
    ELSE IF tasks[task].fault THEN "fault"
    ELSE IF result = Unset THEN "AttributeError"
    ELSE "none"

RunReturns ==
    /\ cur = "driving"
    /\ ready # <<>>
    /\ Head(ready).kind = "until_cb"
    /\ ready' = Tail(ready)
    /\ cur' = "sync"
    /\ op' = "run"
    /\ exc' = RunReturnExc
    /\ ret' = IF RunReturnExc = "none" THEN result ELSE None
    /\ UNCHANGED <<entry, tasks, task, result, awaiter, scope, started, pre,
                   exitKind, nops, startCalls, endCalls>>
    /\ UNCHANGED <<endSaw, notPattern>>

\* handle.stop() from user code.
Stop ==
    /\ CanCallSync
    /\ tasks' = StopTasks(tasks, task)
    /\ ready' = StopReady(ready, tasks, task)
    /\ endCalls' = StopEndCalls(tasks, task)
    /\ endSaw' = StopEndSaw(tasks, task)
    /\ result' = StopResult(tasks, task)
    /\ op' = "stop"
    /\ ret' = StopReturn(tasks, task)
    /\ exc' = StopExc(tasks, task)
    /\ started' = FALSE
    /\ pre' = PreOf
    /\ nops' = nops + 1
    /\ UNCHANGED <<entry, task, cur, awaiter, scope, exitKind, startCalls>>
    /\ UNCHANGED notPattern

\* `await handle` from user code: __await__ starts the work if there is no
\* task, then awaits self._task.  A task that is done hands its outcome
\* over at once; otherwise the caller suspends until the task is done.
AwaitStarts == task = 0

Await ==
    /\ CanCall
    /\ awaiter = 0
    /\ LET ts == IF AwaitStarts THEN RunTasks ELSE tasks
           tk == IF AwaitStarts THEN RunTask ELSE task
           rd == IF AwaitStarts THEN RunReady(ready) ELSE ready
       IN /\ task' = tk
          /\ ready' = rd
          /\ startCalls' = IF AwaitStarts THEN RunStartCalls ELSE startCalls
          /\ IF Done(ts, tk)
             THEN /\ tasks' = ts
                  /\ awaiter' = 0
                  /\ cur' = cur
                  /\ op' = "await"
                  /\ ret' = IF ts[tk].state = "FINISHED" THEN ts[tk].value
                            ELSE None
                  /\ exc' = IF ts[tk].state = "CANCELLED" THEN "CancelledError"
                            ELSE IF ts[tk].fault THEN "fault" ELSE "none"
             ELSE /\ tasks' = [ts EXCEPT ![tk].cbs = Append(@, "awaiter")]
                  /\ awaiter' = tk
                  /\ cur' = "idle"
                  /\ op' = "awaiting"
                  /\ ret' = None
                  /\ exc' = "none"
    /\ started' = (AwaitStarts /\ RunStarts)
    /\ pre' = PreOf
    /\ nops' = nops + 1
    /\ UNCHANGED <<entry, result, scope, exitKind, endCalls>>
    /\ UNCHANGED <<endSaw, notPattern>>

\* `async with handle:` entry: __aenter__ performs run() and yields self.
Enter ==
    /\ CanCall
    /\ scope = "out"
    /\ tasks' = RunTasks
    /\ task' = RunTask
    /\ ready' = RunReady(ready)
    /\ startCalls' = RunStartCalls
    /\ scope' = "in"
    /\ op' = "aenter"
    /\ ret' = "self"
    /\ exc' = "none"
    /\ started' = RunStarts
    /\ pre' = PreOf
    /\ nops' = nops + 1
    /\ UNCHANGED <<entry, result, cur, awaiter, exitKind, endCalls>>
    /\ UNCHANGED <<endSaw, notPattern>>

\* Scope exit: __aexit__(exc_type, exc_val, exc_tb).
\* It only reports whether self._task is cancelled.
ExitReturn ==
    IF task = 0 THEN None
    ELSE IF Cancelled(tasks, task) THEN "True" ELSE "False"

Exit ==
    /\ cur = "caller"
    /\ scope = "in"
    /\ \E k \in ExitKinds : exitKind' = k
    /\ scope' = "out"
    /\ op' = "aexit"
    /\ ret' = ExitReturn
    /\ exc' = "none"
    /\ started' = FALSE
    /\ pre' = PreOf
    /\ UNCHANGED <<entry, tasks, task, result, ready, cur, awaiter, nops,
                   startCalls, endCalls>>
    /\ UNCHANGED <<endSaw, notPattern>>

\* User code returns control to the loop.
Yield ==
    /\ cur = "caller"
    /\ cur' = "idle"
    /\ UNCHANGED <<entry, tasks, task, result, ready, awaiter, scope, op, ret,
                   exc, started, pre, exitKind, nops, startCalls, endCalls>>
    /\ UNCHANGED <<endSaw, notPattern>>

\* ---------------------------------------------------------- event loop
\* Something outside the handle (a timer, I/O, another task) schedules user
\* code that will call the handle.
Arrive ==
    /\ cur = "idle"
    /\ nops < MaxOps
    /\ \A i \in 1..Len(ready) : ready[i].kind # "caller"
    /\ ready' = Append(ready, CallerEntry)
    /\ UNCHANGED <<entry, tasks, task, result, cur, awaiter, scope, op, ret,
                   exc, started, pre, exitKind, nops, startCalls, endCalls>>
    /\ UNCHANGED <<endSaw, notPattern>>

\* The loop runs the user code scheduled by Arrive.
Dispatch ==
    /\ cur = "idle"
    /\ ready # <<>>
    /\ Head(ready).kind = "caller"
    /\ ready' = Tail(ready)
    /\ cur' = "caller"
    /\ UNCHANGED <<entry, tasks, task, result, awaiter, scope, op, ret, exc,
                   started, pre, exitKind, nops, startCalls, endCalls>>
    /\ UNCHANGED <<endSaw, notPattern>>

\* The timer of the asyncio.sleep a task waits in expires: the sleep future
\* gets its result and the task's wakeup is scheduled.
Timer ==
    /\ LoopRuns
    /\ \E t \in 1..Len(tasks) :
        /\ ~Done(tasks, t)
        /\ tasks[t].fut = "pending"
        /\ tasks' = [tasks EXCEPT ![t].fut = "result"]
        /\ ready' = Append(ready, StepEntry(t))
    /\ UNCHANGED <<entry, task, result, cur, awaiter, scope, op, ret, exc,
                   started, pre, exitKind, nops, startCalls, endCalls>>
    /\ UNCHANGED <<endSaw, notPattern>>

\* The loop runs one step of a task.
TaskStep ==
    /\ LoopRuns
    /\ ready # <<>>
    /\ Head(ready).kind = "step"
    /\ LET t == Head(ready).t
       IN /\ tasks' = [tasks EXCEPT ![t] = TaskAfterStep(t)]
          /\ ready' = IF StepFinishes(t)
                      THEN Tail(ready) \o CbEntries(t, tasks[t].cbs)
                      ELSE Tail(ready)
    /\ UNCHANGED <<entry, task, result, cur, awaiter, scope, op, ret, exc,
                   started, pre, exitKind, nops, startCalls, endCalls>>
    /\ UNCHANGED <<endSaw, notPattern>>

\* The loop runs the done callback run() registered on a task: self.stop,
\* called with the finished task as its `result` argument.
StopCallback ==
    /\ LoopRuns
    /\ ready # <<>>
    /\ Head(ready).kind = "stop_cb"
    /\ tasks' = StopTasks(tasks, task)
    /\ ready' = StopReady(Tail(ready), tasks, task)
    /\ endCalls' = StopEndCalls(tasks, task)
    /\ endSaw' = StopEndSaw(tasks, task)
    /\ result' = StopResult(tasks, task)
    /\ UNCHANGED <<entry, task, cur, awaiter, scope, op, ret, exc, started, pre,
                   exitKind, nops, startCalls>>
    /\ UNCHANGED notPattern

\* The loop resumes the caller suspended in `await handle`.
Resume ==
    /\ cur = "idle"
    /\ ready # <<>>
    /\ Head(ready).kind = "awaiter"
    /\ LET t == Head(ready).t
       IN /\ ret' = IF tasks[t].state = "FINISHED" THEN tasks[t].value
                    ELSE None
          /\ exc' = IF tasks[t].state = "CANCELLED" THEN "CancelledError"
                    ELSE IF tasks[t].fault THEN "fault" ELSE "none"
    /\ ready' = Tail(ready)
    /\ awaiter' = 0
    /\ cur' = "caller"
    /\ op' = "resumed"
    /\ UNCHANGED <<entry, tasks, task, result, scope, started, pre, exitKind,
                   nops, startCalls, endCalls>>
    /\ UNCHANGED <<endSaw, notPattern>>

Next ==
    \/ Run
    \/ Stop
    \/ Await
    \/ Enter
    \/ Exit
    \/ Yield
    \/ Arrive
    \/ Dispatch
    \/ Timer
    \/ TaskStep
    \/ StopCallback
    \/ Resume

Spec == Init /\ [][Next]_vars

\* ------------------------------------------ fully synchronous callers
\* The handle is built and used by synchronous code: no loop is running.
InitSync ==
    /\ entry \in [awaits : 0..MaxAwaits, value : Values, fault : BOOLEAN]
    /\ tasks = <<>>
    /\ task = 0
    /\ result = Unset
    /\ ready = <<>>
    /\ cur = "sync"
    /\ awaiter = 0
    /\ scope = "out"
    /\ op = "init"
    /\ ret = None
    /\ exc = "none"
    /\ started = FALSE
    /\ pre = [state |-> "none", req |-> FALSE, fault |-> FALSE]
    /\ exitKind = "none"
    /\ nops = 0
    /\ startCalls = 0
    /\ endCalls = 0
    /\ endSaw = "never"
    /\ CacheIdle
    /\ TimeoutIdle
    /\ DictsIdle
    /\ ConfigIdle

NextSync ==
    \/ Run
    \/ Stop
    \/ Timer
    \/ TaskStep
    \/ StopCallback
    \/ RunReturns

SpecSync == InitSync /\ [][NextSync]_vars

\* ------------------------------------- work that is started and left alone
\* User code only starts the work: it never stops or awaits the handle.
\* The loop is fair: user code gives control back, ready callbacks are run
\* in turn, and a sleep that is due ends.
NextLive ==
    \/ Run
    \/ Yield
    \/ Arrive
    \/ Dispatch
    \/ Timer
    \/ TaskStep
    \/ StopCallback

SpecLive ==
    /\ Init
    /\ [][NextLive]_vars
    /\ WF_vars(Yield)
    /\ WF_vars(Dispatch)
    /\ WF_vars(TaskStep)
    /\ WF_vars(StopCallback)
    /\ SF_vars(Timer)

\* ------------------------------------------------- future_lru_cache
\* The decorated function: it suspends once, then returns a value that
\* depends on its arguments, or raises on the keys in cfails.
FuncValue(k) == 10 * k

CacheLen(c) == Cardinality({k \in Keys : c[k].kind # "absent"})

\* `if key in cache`.
CallHits(k) == cache[k].kind # "absent"

\* Variant of the decorator that does not cache the future of a call in
\* progress.
CallCacheNoFuture(k) == cache

\* `cache[key] = task` for a key the cache does not hold.
CallCache(k) ==
    IF CallHits(k) THEN cache
    ELSE [cache EXCEPT ![k] = [kind |-> "task", t |-> Len(ctasks) + 1, v |-> 0]]

\* asyncio.Task(run_and_cache(func, args, kwargs)).
CallTasks(k) ==
    IF CallHits(k) THEN ctasks
    ELSE Append(ctasks, [key |-> k, state |-> "PENDING", exc |-> "none",
                         v |-> 0])

\* What decorator(*args) returns: the cached future, a new future resolved
\* with the cached value, or the task it has just created.
CallReturn(k) ==
    IF ~CallHits(k)
    THEN [key |-> k, kind |-> "task", t |-> Len(ctasks) + 1, v |-> 0,
          fresh |-> TRUE]
    ELSE IF cache[k].kind = "task"
    THEN [key |-> k, kind |-> "task", t |-> cache[k].t, v |-> 0,
          fresh |-> FALSE]
    ELSE [key |-> k, kind |-> "resolved", t |-> 0, v |-> cache[k].v,
          fresh |-> FALSE]

\* A call of the decorated function.
Call ==
    /\ ncalls < MaxCalls
    /\ \E k \in Keys :
        /\ cache' = CallCache(k)
        /\ ctasks' = CallTasks(k)
        /\ cret' = CallReturn(k)
    /\ ncalls' = ncalls + 1
    /\ UNCHANGED <<cmax, cfails, runs, notCache>>

\* The loop runs the first step of a run_and_cache task: the body of the
\* decorated function starts executing and suspends.
BodyStarts ==
    /\ \E t \in 1..Len(ctasks) :
        /\ ctasks[t].state = "PENDING"
        /\ ctasks' = [ctasks EXCEPT ![t].state = "RUNNING"]
        /\ runs' = [runs EXCEPT ![ctasks[t].key] = @ + 1]
    /\ UNCHANGED <<cmax, cfails, cache, cret, ncalls, notCache>>

\* The cache once run_and_cache has stored the result under its key.
CacheStored(t) ==
    [cache EXCEPT ![ctasks[t].key] =
        [kind |-> "value", t |-> 0, v |-> FuncValue(ctasks[t].key)]]

\* `isinstance(maxsize, int) and len(cache) > maxsize`.
Overflows(t) == cmax >= 0 /\ CacheLen(CacheStored(t)) > cmax

\* The decorated function returns: run_and_cache stores the result, and
\* when the cache is over maxsize it calls cache.popitem(False), which a
\* dict rejects with TypeError.
BodyReturns ==
    /\ \E t \in 1..Len(ctasks) :
        /\ ctasks[t].state = "RUNNING"
        /\ ctasks[t].key \notin cfails
        /\ cache' = CacheStored(t)
        /\ ctasks' = IF Overflows(t)
                      THEN [ctasks EXCEPT ![t].state = "FAILED",
                                          ![t].exc = "TypeError"]
                      ELSE [ctasks EXCEPT ![t].state = "FINISHED",
                                          ![t].v = FuncValue(ctasks[t].key)]
    /\ UNCHANGED <<cmax, cfails, runs, cret, ncalls, notCache>>

\* The decorated function raises: run_and_cache stores nothing.
BodyRaises ==
    /\ \E t \in 1..Len(ctasks) :
        /\ ctasks[t].state = "RUNNING"
        /\ ctasks[t].key \in cfails
        /\ ctasks' = [ctasks EXCEPT ![t].state = "FAILED",
                                     ![t].exc = "FuncError"]
    /\ UNCHANGED <<cmax, cfails, cache, runs, cret, ncalls, notCache>>

\* A decorated function with some maxsize, and no handle in use.
InitCache ==
    /\ cmax \in -1..MaxSize
    /\ cfails \in SUBSET Keys
    /\ cache = [k \in Keys |-> Absent]
    /\ ctasks = <<>>
    /\ runs = [k \in Keys |-> 0]
    /\ cret = [key |-> 0, kind |-> "none", t |-> 0, v |-> 0, fresh |-> FALSE]
    /\ ncalls = 0
    /\ PatternIdle
    /\ TimeoutIdle
    /\ DictsIdle
    /\ ConfigIdle

NextCache ==
    \/ Call
    \/ BodyStarts
    \/ BodyReturns
    \/ BodyRaises

SpecCache == InitCache /\ [][NextCache]_vars

\* ---------------------------------------------------------- timeout
\* total_seconds, as the arguments of timeout(...) give it.
Seconds == 0..MaxSecs

\* The running time of the wrapped function, in seconds.
Needs == 0..MaxNeed

Top == tstack[Len(tstack)]

\* A call of a function wrapped with timeout(seconds=secs, error=error).
\* A synchronous function may be called from inside another wrapped
\* synchronous function; a coroutine function is awaited from a loop.
Frame(mode, secs, error, need) ==
    [mode |-> mode, secs |-> secs, error |-> error, need |-> need,
     elapsed |-> 0]

\* signal.alarm(total_seconds): replaces the pending alarm; 0 sets none.
Arm(secs) == secs

\* sync_wrapper up to the call of func: installs the handler and the alarm.
TCallSync ==
    /\ tcalls < MaxTCalls
    /\ Len(tstack) < MaxNest
    /\ tstack # <<>> => (Top.mode = "sync" /\ Top.need > 0)
    /\ \E secs \in Seconds, error \in BOOLEAN, need \in Needs :
        /\ tstack' = Append(tstack, Frame("sync", secs, error, need))
        /\ alarm' = Arm(secs)
    /\ tcalls' = tcalls + 1
    /\ UNCHANGED <<tret, tlate, now, notTimeout>>

\* async_wrapper up to the await: asyncio.wait_for(func(...), total_seconds).
TCallAsync ==
    /\ tcalls < MaxTCalls
    /\ tstack = <<>>
    /\ \E secs \in Seconds, error \in BOOLEAN, need \in Needs :
        tstack' = Append(tstack, Frame("async", secs, error, need))
    /\ tcalls' = tcalls + 1
    /\ UNCHANGED <<alarm, tret, tlate, now, notTimeout>>

\* The outcome of a wrapper whose call ended.
Outcome(f, kind, cause) ==
    [mode |-> f.mode, kind |-> kind, cause |-> cause, secs |-> f.secs,
     error |-> f.error, elapsed |-> f.elapsed, left |-> f.need]

\* `except TimeoutError: if error: raise TimeoutError(...)`, else the
\* wrapper falls off its end and returns None.
Caught(f) == IF f.error THEN "TimeoutError" ELSE "None"

\* wait_for with a timeout of 0 cancels a coroutine that has not run yet.
AsyncExpired(f) == f.mode = "async" /\ f.elapsed >= f.secs

\* func returns and the wrapper returns its value.
TReturn ==
    /\ tstack # <<>>
    /\ Top.need = 0
    /\ ~(Top.mode = "async" /\ Top.secs = 0)
    /\ tret' = Outcome(Top, "value", "returned")
    /\ tstack' = SubSeq(tstack, 1, Len(tstack) - 1)
    /\ UNCHANGED <<alarm, tlate, now, tcalls, notTimeout>>

\* The timer of wait_for expires: the coroutine is cancelled and
\* asyncio.TimeoutError is raised into async_wrapper.
TAsyncTimeout ==
    /\ tstack # <<>>
    /\ AsyncExpired(Top)
    /\ tret' = Outcome(Top, Caught(Top), "timer")
    /\ tstack' = <<>>
    /\ UNCHANGED <<alarm, tlate, now, tcalls, notTimeout>>

\* One second passes in every call in progress; the innermost function
\* is the one that runs.
Aged(st) ==
    [i \in 1..Len(st) |->
        [st[i] EXCEPT !.elapsed = @ + 1,
                      !.need = IF i = Len(st) /\ @ > 0 THEN @ - 1 ELSE @]]

\* A TimeoutError travels outwards through the wrappers of st: each one
\* catches it and, with error=True, raises a new one into its caller.
\* Gives the stack that is left and the outcome of the last wrapper hit.
RECURSIVE Unwind(_, _)
Unwind(st, cause) ==
    LET f == st[Len(st)]
        rest == SubSeq(st, 1, Len(st) - 1)
        out == Outcome(f, Caught(f), cause)
    IN
    IF f.error /\ rest # <<>>
    THEN Unwind(rest, "raised")
    ELSE [stack |-> rest, out |-> out]

\* A second passes without the alarm going off.
TickQuiet ==
    /\ now < MaxTime
    /\ alarm # 1
    /\ tstack # <<>> => (Top.need > 0 /\ ~AsyncExpired(Top))
    /\ now' = now + 1
    /\ alarm' = IF alarm > 0 THEN alarm - 1 ELSE 0
    /\ tstack' = Aged(tstack)
    /\ UNCHANGED <<tret, tlate, tcalls, notTimeout>>

\* The alarm goes off inside a wrapped synchronous function:
\* _handle_timeout raises TimeoutError there.
TickAlarmSync ==
    /\ now < MaxTime
    /\ alarm = 1
    /\ tstack # <<>>
    /\ Top.mode = "sync"
    /\ Top.need > 0
    /\ now' = now + 1
    /\ alarm' = 0
    /\ tstack' = Unwind(Aged(tstack), "alarm").stack
    /\ tret' = Unwind(Aged(tstack), "alarm").out
    /\ UNCHANGED <<tlate, tcalls, notTimeout>>

\* The alarm goes off while the loop runs a wrapped coroutine: the
\* TimeoutError is raised either in the coroutine, where async_wrapper may
\* take it for wait_for's, or in the loop's own code.
TickAlarmAsync ==
    /\ now < MaxTime
    /\ alarm = 1
    /\ tstack # <<>>
    /\ Top.mode = "async"
    /\ Top.need > 0
    /\ ~AsyncExpired(Top)
    /\ now' = now + 1
    /\ alarm' = 0
    /\ tstack' = <<>>
    /\ \E inside \in BOOLEAN :
        /\ tret' = Outcome(Aged(tstack)[1],
                           IF inside THEN Caught(Top) ELSE "TimeoutError",
                           "alarm")
        /\ tlate' = (tlate \/ ~inside)
    /\ UNCHANGED <<tcalls, notTimeout>>

\* The alarm goes off in code that runs after the wrapped calls.
TickAlarmLate ==
    /\ now < MaxTime
    /\ alarm = 1
    /\ tstack = <<>>
    /\ now' = now + 1
    /\ alarm' = 0
    /\ tlate' = TRUE
    /\ UNCHANGED <<tstack, tret, tcalls, notTimeout>>

InitTimeout ==
    /\ TimeoutIdle
    /\ PatternIdle
    /\ CacheIdle
    /\ DictsIdle
    /\ ConfigIdle

NextTimeout ==
    \/ TCallSync
    \/ TCallAsync
    \/ TReturn
    \/ TAsyncTimeout
    \/ TickQuiet
    \/ TickAlarmSync
    \/ TickAlarmAsync
    \/ TickAlarmLate

SpecTimeout == InitTimeout /\ [][NextTimeout]_vars

\* ------------------------------------------------------ dictionaries
\* A dict passed as an argument: its items in insertion order.
RECURSIVE DistinctKeys(_)
DistinctKeys(items) ==
    \/ items = <<>>
    \/ /\ \A i \in 2..Len(items) : items[i][1] # items[1][1]
       /\ DistinctKeys(Tail(items))

ItemLists(n) ==
    {items \in UNION {[1..m -> Elems \X Elems] : m \in 0..n} :
        DistinctKeys(items)}

Dictionaries == ItemLists(MaxItems)

\* Keyword arguments: none, or one.
Kwargs == {items \in Dictionaries : Len(items) <= 1}

\* {v: k for k, v in dictionary.items()}, as the items it is built from.
Inverted(items) == [i \in 1..Len(items) |-> <<items[i][2], items[i][1]>>]

\* dict contents after storing items in order: a later item replaces an
\* earlier one with the same key.
RECURSIVE Stored(_, _)
Stored(m, items) ==
    IF items = <<>> THEN m
    ELSE Stored([m EXCEPT ![items[1][1]] = items[1][2]], Tail(items))

\* {**dictionary, **inverse, **kwargs, **inverse of kwargs}.
TwoWay(dictionary, kwargs) ==
    Stored(EmptyDict, dictionary \o Inverted(dictionary)
                      \o kwargs \o Inverted(kwargs))

\* dict.update(self, other).
Updated(m, other) ==
    [k \in Elems |-> IF other[k] # NoItem THEN other[k] ELSE m[k]]

\* BidirectionalDict(dictionary, **kwargs).
BNew ==
    /\ \E dictionary \in Dictionaries, kwargs \in Kwargs :
        bd' = TwoWay(dictionary, kwargs)
    /\ dexc' = "none"
    /\ dop' = [obj |-> "bidirectional", name |-> "init", key |-> NoItem]
    /\ UNCHANGED <<fd, notDicts>>

\* BidirectionalDict.__setitem__(key, value).
BSetItem ==
    /\ \E key \in Elems, value \in Elems :
        /\ bd' = [[bd EXCEPT ![key] = value] EXCEPT ![value] = key]
        /\ dop' = [obj |-> "bidirectional", name |-> "setitem", key |-> key]
    /\ dexc' = "none"
    /\ UNCHANGED <<fd, notDicts>>

\* BidirectionalDict.update(dictionary, **kwargs) with the positional
\* argument given.
BUpdate ==
    /\ \E dictionary \in Dictionaries, kwargs \in Kwargs :
        bd' = Updated(bd, TwoWay(dictionary, kwargs))
    /\ dexc' = "none"
    /\ dop' = [obj |-> "bidirectional", name |-> "update", key |-> NoItem]
    /\ UNCHANGED <<fd, notDicts>>

\* BidirectionalDict.update(**kwargs): dictionary defaults to
\* Optional[dict], which is truthy and is not a mapping.
BUpdateDefault ==
    /\ dexc' = "TypeError"
    /\ dop' = [obj |-> "bidirectional", name |-> "update", key |-> NoItem]
    /\ UNCHANGED <<fd, bd, notDicts>>

\* Variant of FrozenDict.__setitem__ that stores like a dict.
FrozenSetStores(key, value) == [fd EXCEPT ![key] = value]

\* The contents of the FrozenDict after __setitem__(key, value).
FrozenSet(key, value) == fd

\* FrozenDict.__setitem__(key, value).
FSetItem ==
    /\ \E key \in Elems, value \in Elems :
        /\ fd' = FrozenSet(key, value)
        /\ dop' = [obj |-> "frozen", name |-> "setitem", key |-> key]
    /\ dexc' = "KeyError"
    /\ UNCHANGED <<bd, notDicts>>

\* FrozenDict.update(dictionary, **kwargs).
FUpdate ==
    /\ \E dictionary \in Dictionaries, kwargs \in Kwargs :
        /\ fd' = fd
        /\ dop' = [obj |-> "frozen", name |-> "update",
                    key |-> IF dictionary = <<>> THEN NoItem
                            ELSE dictionary[1][1]]
    /\ dexc' = "KeyError"
    /\ UNCHANGED <<bd, notDicts>>

\* A FrozenDict constructed with some contents.
InitFrozen ==
    /\ fd \in [Elems -> Elems \cup {NoItem}]
    /\ bd = EmptyDict
    /\ dexc = "none"
    /\ dop = NoDictOp
    /\ PatternIdle
    /\ CacheIdle
    /\ TimeoutIdle
    /\ ConfigIdle

NextFrozen ==
    \/ FSetItem
    \/ FUpdate

SpecFrozen == InitFrozen /\ [][NextFrozen]_vars

\* BidirectionalDict(): an empty one.
InitBidirectional ==
    /\ DictsIdle
    /\ PatternIdle
    /\ CacheIdle
    /\ TimeoutIdle
    /\ ConfigIdle

NextBidirectional ==
    \/ BNew
    \/ BSetItem
    \/ BUpdate
    \/ BUpdateDefault

SpecBidirectional == InitBidirectional /\ [][NextBidirectional]_vars

\* ---------------------------------------------------- global config
\* The values a configuration key may hold: a plain value, a nested
\* dictionary of plain values, or an fdict of plain values.
ConfValues ==
    [kind : {"atom"}, atom : Atoms, sub : {NoSub}]
    \cup [kind : {"dict", "fdict"}, atom : {NoAtom},
          sub : [SubKeys -> Atoms \cup {NoAtom}]]

ConfDicts == [ConfKeys -> ConfValues \cup {NoValue}]

\* Keyword arguments carrying plain values.
ConfKwargs == {d \in ConfDicts : \A k \in ConfKeys : d[k].kind \in {"atom", "absent"}}

\* {**dictionary, **kwargs}.
Merged(dictionary, kwargs) ==
    [k \in ConfKeys |->
        IF kwargs[k].kind # "absent" THEN kwargs[k] ELSE dictionary[k]]

\* nestednamedtuple(value) for a value held under a key: a Mapping that is
\* not an fdict becomes a namedtuple of its converted items, anything else
\* is returned as it is.
Nested(v) == IF v.kind = "dict" THEN [v EXCEPT !.kind = "namedtuple"] ELSE v

\* The argument of nestednamedtuple after the call:
\* `dictionary[key] = nestednamedtuple(value)` for every item.
Converted(dictionary) == [k \in ConfKeys |-> Nested(dictionary[k])]

\* make_config(dictionary, **kwargs).
MakeConfig ==
    /\ \E dictionary \in ConfDicts, kwargs \in ConfKwargs :
        /\ gconf' = Merged(dictionary, kwargs)
        /\ ginst' = Merged(dictionary, kwargs)
    /\ UNCHANGED <<gret, notConfig>>

\* conf(): nestednamedtuple(g["gconf"]).
Conf ==
    /\ gconf' = Converted(gconf)
    /\ gret' = [kind |-> "namedtuple", items |-> Converted(gconf)]
    /\ UNCHANGED <<ginst, notConfig>>

\* config(): the dictionary itself.
Config ==
    /\ gret' = [kind |-> "dict", items |-> gconf]
    /\ UNCHANGED <<gconf, ginst, notConfig>>

InitConfig ==
    /\ ConfigIdle
    /\ PatternIdle
    /\ CacheIdle
    /\ TimeoutIdle
    /\ DictsIdle

NextConfig ==
    \/ MakeConfig
    \/ Conf
    \/ Config

SpecConfig == InitConfig /\ [][NextConfig]_vars

\* ------------------------------------------------------------ typing
TypeOK ==
    /\ task \in 0..Len(tasks)
    /\ result \in {Unset, None} \cup Values
    /\ cur \in {"caller", "idle", "sync", "driving"}
    /\ awaiter \in 0..Len(tasks)
    /\ scope \in {"out", "in"}
    /\ nops \in 0..MaxOps

\* ------------------------------------------------------------- claims
Outstanding == {t \in 1..Len(tasks) : tasks[t].state = "PENDING"}

\* C1: scope exit always performs stop(): whenever the `async with` block is
\* left (normally, by a fault, or early) while the work started on entry is
\* still outstanding, cancellation of the handle's task has been requested.
C1_ScopeExitStops ==
    (op = "aexit" /\ pre.state = "PENDING") => tasks[task].cancelReq

\* C2: stop() on a handle with no outstanding work (never started, completed
\* naturally, or already cancelled) does not raise.
C2_StopWithoutWorkDoesNotRaise ==
    (/\ op = "stop"
     /\ \/ pre.state \in {"none", "CANCELLED"}
        \/ pre.state = "FINISHED" /\ ~pre.fault)
    => exc = "none"

\* C3: in every reachable state at most one task created by the handle has
\* not reached a terminal state.
C3_AtMostOneOutstanding == Cardinality(Outstanding) <= 1

\* A restart happened and the restarted unit is the one outstanding.
C3_Witness == Len(tasks) >= 2 /\ Outstanding = {task}

\* C4: run() on a handle whose work is outstanding changes nothing: no task
\* is created, nothing is scheduled, the start callback is not invoked.
C4_StartIdempotent ==
    [][(Run /\ task # 0 /\ ~Done(tasks, task))
        => (/\ tasks' = tasks
            /\ task' = task
            /\ ready' = ready
            /\ startCalls' = startCalls
            /\ ~started')]_vars

\* run(); run() without a stop(): one task, one start callback invocation.
C4_Witness ==
    /\ op = "run"
    /\ pre.state = "PENDING"
    /\ ~pre.req
    /\ endCalls = 0
    /\ Len(tasks) = 1
    /\ startCalls = 1

\* C5: run() on a handle whose previous unit of work ran to completion
\* invokes the start callback and schedules a new unit of work.
C5_RestartAfterCompletion ==
    (op = "run" /\ pre.state = "FINISHED" /\ ~pre.fault) => started

\* C6: once stop() has requested cancellation of the outstanding work, the
\* next run() schedules a new unit of work, however many scheduler steps
\* (zero included) lie between the two calls.
C6_RestartAfterStop == (op = "run" /\ pre.req) => started

\* C7: stop() on work that has not completed returns None without raising,
\* and handle.result stays None while the cancellation takes effect and the
\* task's done notification runs.
C7_StopBeforeCompletionClearsResult ==
    (op = "stop" /\ pre.state = "PENDING")
    => (ret = None /\ exc = "none" /\ result = None)

\* The stopped task reports cancelled and every scheduled callback has run.
C7_Witness ==
    /\ op = "stop"
    /\ pre.state = "PENDING"
    /\ task # 0
    /\ tasks[task].state = "CANCELLED"
    /\ ready = <<>>
    /\ result = None

\* C8: when `await handle` yields the value of work that completed
\* naturally, that value and handle.result both equal the entry point's
\* return value.
C8_AwaitYieldsCapturedResult ==
    (op \in {"await", "resumed"} /\ exc = "none")
    => (ret = entry.value /\ result = entry.value)

\* C9: `await handle` never raises a cancellation fault into the caller.
C9_AwaitCancelledNoFault ==
    op \in {"await", "resumed"} => exc # "CancelledError"

\* C11: a run() that starts the work while the loop is not running blocks
\* until the work has completed, returns the work's result, and that value
\* equals handle.result.
C11_SyncRunReturnsResult ==
    /\ cur = "driving" => op = "running"
    /\ (op = "run" /\ started /\ ~entry.fault)
       => (/\ tasks[task].state = "FINISHED"
           /\ exc = "none"
           /\ ret = entry.value
           /\ ret = result)

\* The blocking run() has returned to the synchronous caller.
C11_Witness ==
    /\ op = "run"
    /\ started
    /\ cur = "sync"
    /\ tasks[task].state = "FINISHED"
    /\ ret = entry.value

\* C12: with the loop running, a run() that starts the work returns at once
\* to its caller: the new task is not done, no step of the entry point has
\* run, and its first step is queued behind what the loop already has.
C12_RunReturnsAtOnce ==
    [][(Run /\ cur = "caller" /\ RunStarts)
        => (/\ cur' = "caller"
            /\ op' = "run"
            /\ task' = Len(tasks) + 1
            /\ tasks'[task'].state = "PENDING"
            /\ tasks'[task'].left = entry.awaits
            /\ tasks'[task'].fut = "none"
            /\ ready' = Append(ready, StepEntry(task')))]_vars

\* run() has just returned and its task has not taken a step.
C12_Witness ==
    /\ op = "run"
    /\ started
    /\ cur = "caller"
    /\ tasks[task].state = "PENDING"
    /\ tasks[task].fut = "none"
    /\ tasks[task].left = entry.awaits

\* C13: stop() on work that completed naturally returns the entry point's
\* result and leaves it in handle.result, on the first and on every later
\* call.
C13_StopIdempotentOnCompleted ==
    (op = "stop" /\ pre.state = "FINISHED" /\ ~pre.fault)
    => (exc = "none" /\ ret = entry.value /\ result = entry.value)

\* The done callback and two explicit stop() calls acted on the one task.
C13_Witness ==
    /\ op = "stop"
    /\ pre.state = "FINISHED"
    /\ ~pre.fault
    /\ Len(tasks) = 1
    /\ tasks[1].ends >= 3

\* C14: a fault raised by the entry point is never swallowed: it is raised
\* to a caller that awaits the handle, it is raised by a stop() called after
\* the work ended, and once stop() has retrieved the outcome handle.result
\* does not report it as an absent result.
C14_FaultNeverSwallowed ==
    /\ (op \in {"await", "stop"} /\ pre.state = "FINISHED" /\ pre.fault)
       => exc = "fault"
    /\ (op = "resumed" /\ entry.fault /\ exc # "CancelledError")
       => exc = "fault"
    /\ (/\ task # 0
        /\ tasks[task].state = "FINISHED"
        /\ tasks[task].fault
        /\ tasks[task].ends >= 1)
       => result # None

\* C15: handle.result of a freshly constructed handle (run=False, nothing
\* called yet) reads None.
C15_FreshResultIsNone == (op = "init" /\ tasks = <<>>) => result = None

\* A task whose coroutine has taken at least one step.
Begun(t) ==
    \/ tasks[t].state = "FINISHED"
    \/ tasks[t].fut # "none"
    \/ tasks[t].left < entry.awaits

\* C16: the start callback has been invoked exactly once per task created,
\* and before the entry point of that task began executing.
C16_StartCallbackOncePerTask ==
    /\ startCalls = Len(tasks)
    /\ \A t \in 1..Len(tasks) : Begun(t) => startCalls >= t

\* Two units were started, and a later run() found work outstanding.
C16_Witness ==
    /\ op = "run"
    /\ ~started
    /\ startCalls = 2
    /\ Begun(task)

\* C17: a stop() that finds work outstanding requests its cancellation and
\* invokes the end callback; whenever stop() invokes the end callback, it
\* does so before it touches handle.result.
C17_StopCancelsAndEndsFirst ==
    [][((Stop \/ StopCallback) /\ task # 0)
        => (/\ ~Done(tasks, task)
               => (tasks'[task].cancelReq /\ endCalls' = endCalls + 1)
            /\ StopFires(tasks, task)
               => (endCalls' = endCalls + 1 /\ endSaw' = result))]_vars

\* The first stop() found the work outstanding; its end callback ran while
\* handle.result was still unassigned.
C17_Witness ==
    /\ op = "stop"
    /\ pre.state = "PENDING"
    /\ ~pre.req
    /\ tasks[task].cancelReq
    /\ endCalls = 1
    /\ endSaw = Unset
    /\ result = None

\* C18: handle.result holds a value only if the handle's current unit of
\* work ran to completion; never while work is outstanding or cancelled.
C18_ResultOnlyAfterCompletion ==
    result \in Values
    => (/\ task # 0
        /\ tasks[task].state = "FINISHED"
        /\ ~tasks[task].fault
        /\ result = tasks[task].value)

\* A result has been captured.
C18_Witness == result \in Values /\ task # 0 /\ tasks[task].state = "FINISHED"

\* C19: work that is started with the loop running and never stopped
\* eventually completes, the end callback is fired and handle.result holds
\* the entry point's return value, with no stop() or await by the caller.
C19_UnstoppedWorkCompletes ==
    (task # 0 /\ ~entry.fault)
    ~> (/\ task # 0
        /\ tasks[task].state = "FINISHED"
        /\ tasks[task].ends >= 1
        /\ endCalls >= 1
        /\ result = entry.value)

\* The work completed and was captured after run() alone.
C19_Witness ==
    /\ op = "run"
    /\ task # 0
    /\ tasks[task].state = "FINISHED"
    /\ endCalls = 1
    /\ result = entry.value

\* C20: the body of a function decorated with future_lru_cache runs at most
\* once per argument key: a call made while the first call with that key is
\* in progress returns that call's task, and a call made after it returned
\* is handed the cached value; neither creates a task.
C20_BodyRunsOncePerKey ==
    /\ \A k \in Keys :
        /\ runs[k] <= 1
        /\ Cardinality({t \in 1..Len(ctasks) : ctasks[t].key = k}) <= 1
    /\ (cret.kind = "task" /\ ~cret.fresh)
       => (/\ cret.t \in 1..Len(ctasks)
           /\ ctasks[cret.t].key = cret.key)
    /\ cret.kind = "resolved"
       => (cret.v = FuncValue(cret.key) /\ runs[cret.key] = 1)

\* A call arrived while the body was executing for the same key.
C20_Witness ==
    /\ cret.kind = "task"
    /\ ~cret.fresh
    /\ ctasks[cret.t].state = "RUNNING"
    /\ runs[cret.key] = 1

\* C21: with an integer maxsize the cache never holds more than maxsize
\* entries once the calls made so far have completed, and no call fails
\* because the cache was full: it completes with the function's result.
C21_MaxsizeBoundsCache ==
    cmax >= 1
    => /\ \A t \in 1..Len(ctasks) : ctasks[t].exc # "TypeError"
       /\ (\A t \in 1..Len(ctasks) : ctasks[t].state \in {"FINISHED", "FAILED"})
          => CacheLen(cache) <= cmax

\* C24: the done notification of an earlier unit of work never requests
\* cancellation of, or fires the end callback for, the unit of work that
\* run() created before the notification was delivered.
C24_StaleCallbackSparesNewWork ==
    [][(StopCallback /\ Head(ready).t # task)
       => (/\ tasks'[task].cancelReq = tasks[task].cancelReq
           /\ endCalls' = endCalls)]_vars

\* C25: the end callback is invoked at most once per unit of work, whether
\* stop() is called explicitly, repeatedly, or runs as the done callback.
C25_EndCallbackOncePerTask ==
    \A t \in 1..Len(tasks) : tasks[t].ends <= 1

\* C26: a fault raised by the body of `async with handle` is never
\* suppressed by the scope exit, whatever the state of the work.
C26_ExitNeverSuppresses ==
    (op = "aexit" /\ exitKind = "fault" /\ awaiter = 0) => ret # "True"

\* C22: a wrapped function that finishes before the timeout gives the
\* wrapper its own return value; one that does not finish within the timeout
\* makes the wrapper return None with error=False and raise TimeoutError with
\* error=True.
C22_TimeoutOutcome ==
    /\ (tret.kind \in {"None", "TimeoutError"} /\ tret.cause # "raised")
       => tret.elapsed + tret.left >= tret.secs
    /\ tret.kind = "value" => tret.elapsed <= tret.secs
    /\ (tret.kind = "TimeoutError" /\ tret.cause \in {"alarm", "timer"}
        /\ tret.elapsed >= tret.secs) => tret.error
    /\ tret.kind = "None" => ~tret.error

\* C28: once the wrapped synchronous calls have ended no alarm is pending,
\* and no TimeoutError reaches code that runs outside the calls.
C28_AlarmDisarmed ==
    /\ tstack = <<>> => alarm = 0
    /\ ~tlate

\* C23: d[key] = value and d.update(...) on a FrozenDict always raise
\* KeyError, for existing and new keys alike, and leave the contents as they
\* were.
C23_FrozenRejectsAssignment ==
    [][(FSetItem \/ FUpdate) => (dexc' = "KeyError" /\ fd' = fd)]_vars

\* An assignment to a key the FrozenDict holds was rejected.
C23_Witness ==
    /\ dop.obj = "frozen"
    /\ dop.name = "setitem"
    /\ fd[dop.key] # NoItem
    /\ dexc = "KeyError"

\* C29: a BidirectionalDict is two-way: every value it holds is a key, and
\* it maps back to the key it is stored under.
C29_BidirectionalStaysTwoWay ==
    \A k \in Elems : bd[k] # NoItem => bd[bd[k]] = k

\* C30: conf() leaves the global configuration as make_config installed it:
\* what config() returns stays equal to that dictionary, item by item.
C30_ConfReadOnly ==
    /\ gconf = ginst
    /\ gret.kind = "dict" => gret.items = ginst

\* C27: a call whose body raised leaves no entry under its key, so a later
\* call with the same arguments is not handed the failed task.
C27_FailedCallNotCached ==
    /\ \A t \in 1..Len(ctasks) :
        (ctasks[t].state = "FAILED" /\ ctasks[t].exc = "FuncError")
        => cache[ctasks[t].key].kind = "absent"
    /\ (cret.kind = "task" /\ ~cret.fresh)
       => ctasks[cret.t].exc # "FuncError"

\* C10: `await handle` on a handle without outstanding work (never started,
\* completed, or cancelled) first performs run(): a new unit is scheduled.
C10_AwaitStartsWhenIdle ==
    (/\ op \in {"await", "awaiting"}
     /\ \/ pre.state \in {"none", "CANCELLED"}
        \/ pre.state = "FINISHED" /\ ~pre.fault)
    => started

====
